---- MODULE Spec2Model ----
(***************************************************************************)
(* Model of the MACROPAD hotkey controller (src/code.py): the main loop,   *)
(* App.switch, display_image and the press / release interpretation of a   *)
(* macro sequence, together with the hardware it polls (encoder, encoder   *)
(* button, keypad event queue) and the output sink it drives (keyboard,    *)
(* consumer control, mouse, tone, key LEDs, menu labels).                   *)
(*                                                                         *)
(* pc is the position of the single thread of control in src/code.py.  The *)
(* hardware changes between any two steps of the program: the program      *)
(* blocks in time.sleep, in HID reports and in the icon animation, while   *)
(* the encoder, the button and the keypad scanner keep running.            *)
(***************************************************************************)
EXTENDS Integers, Sequences, FiniteSets, TLC

VARIABLES
    scenario,             \* the part of the hardware that is operated: the keys that
                          \* are pressed and the detents the dial is turned over
    apps,                 \* the loaded profiles (code.py:162-176), fixed after load
    pc,                   \* position of the program
    caller,               \* who called App.switch: "startup" (line 187) or "loop" (line 199)
    app_index,            \* code.py:186,198
    last_position,        \* code.py:184,200: <<>> is None, <<p>> is the integer p
    last_encoder_switch,  \* code.py:185,212
    position,             \* code.py:195, the tick's reading of the encoder
    enc_position,         \* code.py:46, display_image's own reading of the encoder
    result,               \* code.py:199: "unset" before the first assignment
    key_number,           \* code.py:215,221
    pressed,              \* code.py:216,222
    idx,                  \* index of the next item of `for item in sequence`
    encoder,              \* hardware: macropad.encoder
    encoder_switch,       \* hardware: the debounced encoder button
    key_down,             \* hardware: the physical keys that are down
    events,               \* hardware: macropad.keys.events, a FIFO of key events
    sink,                 \* what the host sees asserted: keys, buttons, media, tone
    pixels,               \* macropad.pixels[0..11]
    menu,                 \* group[0..11].text and group[13].text
    display_root,         \* what macropad.display.show() was last given
    calls,                \* history: the output calls made since the last loop restart
    before,               \* history: pixels, menu and sink as they were when App.switch
                          \* was entered in this tick
    held,                 \* history: the keys whose press was dispatched, with no release
                          \* dispatched and no App.switch since
    debounced,            \* encoder_switch_debounced.pressed, as of its last update()
    stale                 \* history: how many events at the head of the queue were
                          \* already queued when a switch was last interrupted

vars == << scenario, apps, pc, caller, app_index, last_position, last_encoder_switch,
           position, enc_position, result, key_number, pressed, idx,
           encoder, encoder_switch, key_down, events, sink, pixels, menu,
           display_root, calls, before, held, debounced, stale >>

(***************************************************************************)
(* Bounds of the model.                                                    *)
(***************************************************************************)
MaxEnc == 3      \* the encoder stays within -1..MaxEnc
MaxQueue == 1    \* at most MaxQueue key events wait in the queue

(***************************************************************************)
(* Program constants.                                                      *)
(***************************************************************************)
NumPixels == 12          \* range(12): the physical keys and their LEDs
EncoderKey == 12         \* key_number = 12, the encoder button as 13th key
MinEncoderMacros == 13   \* len(macros) < 13: no macro for the encoder button
HIGHLIGHT == 16777215    \* 0xFFFFFF
OFF == 0                 \* macropad.pixels[i] = 0

CONTROL == 224           \* Keycode.CONTROL, as the macro files use it

(***************************************************************************)
(* Items of a macro sequence, as the press branch tells them apart with    *)
(* isinstance (code.py:230-236).  NoneItem is an item of no handled type.   *)
(***************************************************************************)
IntItem(n)   == [t |-> "int", i |-> n]
FloatItem(n) == [t |-> "float", f |-> n]
StrItem(s)   == [t |-> "str", s |-> s]
ListItem(l)  == [t |-> "list", l |-> l]
DictItem(d)  == [t |-> "dict", d |-> d]
NoneItem     == [t |-> "none"]

\* A dict with, under the key k, a value that is no number (a string): the
\* macro file loads, and the comparison of the value with 0 raises TypeError.
BadDictItem(d, k) == [t |-> "dict", d |-> d, nan |-> k]

Binding(color, text, sequence) == [color |-> color, label |-> text, sequence |-> sequence]

Unused == Binding(1052688, "", << >>)

AppEdit ==
    [ name |-> "Edit",
      macros |-> <<
        Binding(16711680, "Copy",
                << IntItem(CONTROL), IntItem(6), IntItem(-6), IntItem(-CONTROL) >>),
        Binding(65280, "Grab",
                << IntItem(CONTROL), IntItem(225), DictItem([buttons |-> 1, tone |-> 440]) >>),
        Unused, Unused, Unused, Unused, Unused, Unused, Unused, Unused, Unused, Unused,
        Binding(0, "", << ListItem(<< IntItem(233), FloatItem(1), IntItem(234) >>) >>) >> ]

AppPlay ==
    [ name |-> "Play",
      macros |-> <<
        Binding(64, "Beep",
                << IntItem(CONTROL), StrItem("z"), NoneItem, DictItem([tone |-> 440]),
                   DictItem([buttons |-> -1, x |-> 5]) >>) >> ]

\* A profile with a malformed item: {'tone': 'high'} between two keycodes,
\* after an item of no handled type.
AppOops ==
    [ name |-> "Oops",
      macros |-> <<
        Binding(255, "Oops",
                << NoneItem, IntItem(4), BadDictItem([x |-> 5], "tone"), IntItem(5) >>) >> ]

\* What the loader can leave in `apps`: nothing, or the two profiles.
LoadedApps == { << >>, << AppEdit, AppPlay >> }

\* How the pad is operated.  Dial: the dial is turned over -1..MaxEnc and key 1
\* is pressed (bound in AppEdit, unbound in AppPlay).  Rollover: keys 0 and 1
\* are pressed, also together, and the dial moves between two detents.
\* Malformed: a profile with a malformed item is loaded, and key 0 is pressed.
Dial == [keys |-> {1}, positions |-> (-1)..MaxEnc, loads |-> LoadedApps]
Rollover == [keys |-> {0, 1}, positions |-> 0..1, loads |-> LoadedApps]
\* Settle: the two profiles are loaded, the dial moves between two detents and
\* key 1 is pressed.
Malformed == [keys |-> {0}, positions |-> 0..1, loads |-> { << AppOops, AppPlay >> }]
Settle == [keys |-> {1}, positions |-> 0..1, loads |-> { << AppEdit, AppPlay >> }]

(***************************************************************************)
(* The output sink: what the host sees asserted.  keys is the set of       *)
(* keycodes in the keyboard report, buttons the set of bits of the mouse   *)
(* report's button byte, media the consumer-control code (0: none), tone   *)
(* the frequency being played (0: none).  The macros of the model press    *)
(* fewer keys than a keyboard report holds, so keyboard.press never fails. *)
(***************************************************************************)
EmptySink == [keys |-> {}, buttons |-> {}, media |-> 0, tone |-> 0]

\* The bits of a button mask (one byte).
MaskBits(n) == { b \in 0..7 : (n \div (2 ^ b)) % 2 = 1 }

Has(d, k) == k \in DOMAIN d
Get(d, k, default) == IF k \in DOMAIN d THEN d[k] ELSE default

\* Entries of the history of output calls.
Call(op) == [op |-> op]
CallN(op, n) == [op |-> op, arg |-> n]
CallS(op, s) == [op |-> op, text |-> s]
CallMove(x, y, w) == [op |-> "mouse.move", x |-> x, y |-> y, wheel |-> w]
CallPixel(i, c) == [op |-> "pixel", i |-> i, color |-> c]

(***************************************************************************)
(* The press branch, one item (code.py:241-273).                           *)
(***************************************************************************)
\* A variant of MediaCalls with a slip: the release is made between two codes
\* only, not before the first.
RECURSIVE MediaCallsReleaseBetween(_, _)
MediaCallsReleaseBetween(l, first) ==
    IF l = << >> THEN << >>
    ELSE LET code == Head(l)
         IN  (IF code.t = "int"
                THEN (IF first THEN << >> ELSE << Call("consumer_control.release") >>)
                     \o << CallN("consumer_control.press", code.i) >>
                ELSE << >>)
             \o (IF code.t = "float" THEN << CallN("sleep", code.f) >> ELSE << >>)
             \o MediaCallsReleaseBetween(Tail(l), first /\ code.t # "int")

MediaCallsNoFirstRelease(l) == MediaCallsReleaseBetween(l, TRUE)

RECURSIVE MediaCalls(_)
MediaCalls(l) ==
    IF l = << >> THEN << >>
    ELSE LET code == Head(l)
         IN  (IF code.t = "int"
                THEN << Call("consumer_control.release"),
                        CallN("consumer_control.press", code.i) >>
                ELSE << >>)
             \o (IF code.t = "float" THEN << CallN("sleep", code.f) >> ELSE << >>)
             \o MediaCalls(Tail(l))

RECURSIVE MediaAfter(_, _)
MediaAfter(l, media) ==
    IF l = << >> THEN media
    ELSE MediaAfter(Tail(l), IF Head(l).t = "int" THEN Head(l).i ELSE media)

\* code.py:258-265
DictMouseCalls(d) ==
    (IF Has(d, "buttons")
       THEN IF d.buttons >= 0 THEN << CallN("mouse.press", d.buttons) >>
                              ELSE << CallN("mouse.release", -d.buttons) >>
       ELSE << >>)
    \o << CallMove(Get(d, "x", 0), Get(d, "y", 0), Get(d, "wheel", 0)) >>

\* code.py:258-273
DictPressCalls(d) ==
    DictMouseCalls(d)
    \o (IF Has(d, "tone")
          THEN IF d.tone > 0 THEN << Call("stop_tone"), CallN("start_tone", d.tone) >>
                             ELSE << Call("stop_tone") >>
          ELSE IF Has(d, "play") THEN << CallS("play_file", d.play) >>
          ELSE << >>)

DictMouseSink(d, s) ==
    IF Has(d, "buttons")
      THEN IF d.buttons >= 0
             THEN [s EXCEPT !.buttons = @ \cup MaskBits(d.buttons)]
             ELSE [s EXCEPT !.buttons = @ \ MaskBits(-d.buttons)]
      ELSE s

DictPressSink(d, s) ==
    LET s1 == DictMouseSink(d, s)
    IN  IF Has(d, "tone")
          THEN [s1 EXCEPT !.tone = IF d.tone > 0 THEN d.tone ELSE 0]
          ELSE s1

(***************************************************************************)
(* Items that raise.  `item['buttons'] >= 0` (code.py:259, 286) and        *)
(* `item['tone'] > 0` (code.py:267) raise TypeError when the value is no   *)
(* number.  Nothing in the loop catches it: the program ends there.        *)
(***************************************************************************)
RaisesAt(item, k) == item.t = "dict" /\ Has(item, "nan") /\ item.nan = k

PressRaises(item) == RaisesAt(item, "buttons") \/ RaisesAt(item, "tone")

ReleaseRaises(item) == RaisesAt(item, "buttons")

\* What the press branch has done with the item when it raises: nothing at
\* line 259; the mouse calls of lines 258-265 at line 267.
CallsBeforeRaise(item) ==
    IF RaisesAt(item, "buttons") THEN << >> ELSE DictMouseCalls(item.d)

SinkBeforeRaise(item, s) ==
    IF RaisesAt(item, "buttons") THEN s ELSE DictMouseSink(item.d, s)

\* A variant of PressCalls with a slip: the sign of a keycode is dropped, so a
\* negative entry presses the key.
PressCallsUnsigned(item) ==
    CASE item.t = "int"   -> << CallN("keyboard.press", IF item.i >= 0 THEN item.i ELSE -item.i) >>
      [] item.t = "float" -> << CallN("sleep", item.f) >>
      [] item.t = "str"   -> << CallS("keyboard_layout.write", item.s) >>
      [] item.t = "list"  -> MediaCalls(item.l)
      [] item.t = "dict"  -> DictPressCalls(item.d)
      [] OTHER            -> << >>

PressCalls(item) ==
    CASE item.t = "int"   -> IF item.i >= 0 THEN << CallN("keyboard.press", item.i) >>
                                            ELSE << CallN("keyboard.release", -item.i) >>
      [] item.t = "float" -> << CallN("sleep", item.f) >>
      [] item.t = "str"   -> << CallS("keyboard_layout.write", item.s) >>
      [] item.t = "list"  -> MediaCalls(item.l)
      [] item.t = "dict"  -> DictPressCalls(item.d)
      [] OTHER            -> << >>

\* The sink after the item.  keyboard_layout.write() is the HID library's: it
\* presses and releases the keys of each character, and the library may release
\* them alone or by releasing every key; both outcomes are kept.
PressSinks(item, s) ==
    CASE item.t = "int"   -> { IF item.i >= 0 THEN [s EXCEPT !.keys = @ \cup {item.i}]
                                              ELSE [s EXCEPT !.keys = @ \ {-item.i}] }
      [] item.t = "str"   -> { s, [s EXCEPT !.keys = {}] }
      [] item.t = "list"  -> { [s EXCEPT !.media = MediaAfter(item.l, @)] }
      [] item.t = "dict"  -> { DictPressSink(item.d, s) }
      [] OTHER            -> { s }

(***************************************************************************)
(* The release branch, one item (code.py:280-289).                         *)
(***************************************************************************)
\* A variant of ReleaseCalls with a slip: a negative entry is released too.
ReleaseCallsAbs(item) ==
    CASE item.t = "int"  -> << CallN("keyboard.release", IF item.i >= 0 THEN item.i ELSE -item.i) >>
      [] item.t = "dict" -> IF Has(item.d, "buttons")
                              THEN IF item.d.buttons >= 0
                                     THEN << CallN("mouse.release", item.d.buttons) >>
                                     ELSE << >>
                              ELSE IF Has(item.d, "tone") THEN << Call("stop_tone") >>
                              ELSE << >>
      [] OTHER           -> << >>

ReleaseCalls(item) ==
    CASE item.t = "int"  -> IF item.i >= 0 THEN << CallN("keyboard.release", item.i) >>
                                           ELSE << >>
      [] item.t = "dict" -> IF Has(item.d, "buttons")
                              THEN IF item.d.buttons >= 0
                                     THEN << CallN("mouse.release", item.d.buttons) >>
                                     ELSE << >>
                              ELSE IF Has(item.d, "tone") THEN << Call("stop_tone") >>
                              ELSE << >>
      [] OTHER           -> << >>

\* Variants of ReleaseSink with a slip: a release that toggles the report bit,
\* and a release that clears the whole report (release_all).
ReleaseSinkToggle(item, s) ==
    CASE item.t = "int"  -> IF item.i >= 0
                              THEN [s EXCEPT !.keys = (@ \ {item.i}) \cup ({item.i} \ @)]
                              ELSE s
      [] item.t = "dict" -> IF Has(item.d, "buttons")
                              THEN IF item.d.buttons >= 0
                                     THEN [s EXCEPT !.buttons = @ \ MaskBits(item.d.buttons)]
                                     ELSE s
                              ELSE IF Has(item.d, "tone") THEN [s EXCEPT !.tone = 0]
                              ELSE s
      [] OTHER           -> s

ReleaseSinkAll(item, s) ==
    CASE item.t = "int"  -> IF item.i >= 0 THEN [s EXCEPT !.keys = {}] ELSE s
      [] item.t = "dict" -> IF Has(item.d, "buttons")
                              THEN IF item.d.buttons >= 0
                                     THEN [s EXCEPT !.buttons = {}]
                                     ELSE s
                              ELSE IF Has(item.d, "tone") THEN [s EXCEPT !.tone = 0]
                              ELSE s
      [] OTHER           -> s

ReleaseSink(item, s) ==
    CASE item.t = "int"  -> IF item.i >= 0 THEN [s EXCEPT !.keys = @ \ {item.i}] ELSE s
      [] item.t = "dict" -> IF Has(item.d, "buttons")
                              THEN IF item.d.buttons >= 0
                                     THEN [s EXCEPT !.buttons = @ \ MaskBits(item.d.buttons)]
                                     ELSE s
                              ELSE IF Has(item.d, "tone") THEN [s EXCEPT !.tone = 0]
                              ELSE s
      [] OTHER           -> s

\* code.py:290, after the loop: macropad.consumer_control.release()
ReleaseMedia(s) == [s EXCEPT !.media = 0]

(***************************************************************************)
(* App.switch up to the icon (code.py:110-120) and its menu (127-134).     *)
(***************************************************************************)
AppColors(app) ==
    [ i \in 0..(NumPixels - 1) |->
        IF i < Len(app.macros) THEN app.macros[i + 1].color ELSE OFF ]

AppLabels(app) ==
    [ i \in 0..(NumPixels - 1) |->
        IF i < Len(app.macros) THEN app.macros[i + 1].label ELSE "" ]

StopEverything ==
    << Call("keyboard.release_all"), Call("consumer_control.release"),
       Call("mouse.release_all"), Call("stop_tone") >>

RECURSIVE PixelCalls(_, _)
PixelCalls(colors, i) ==
    IF i >= NumPixels THEN << Call("pixels.show") >>
    ELSE << CallPixel(i, colors[i]) >> \o PixelCalls(colors, i + 1)

SwitchCalls(app) == StopEverything \o PixelCalls(AppColors(app), 0)

\* A variant of SwitchSink with a slip: stop_tone() is forgotten.
SwitchSinkKeepsTone(s) == [EmptySink EXCEPT !.tone = s.tone]

SwitchSink(s) == EmptySink

BlankMenu == [labels |-> [i \in 0..(NumPixels - 1) |-> ""], name |-> ""]

AppMenu(app) == [labels |-> AppLabels(app), name |-> app.name]

NoSnapshot == << >>

(***************************************************************************)
(* The state after construction (code.py:140-176).                         *)
(***************************************************************************)
InitAs(s) ==
    /\ scenario = s
    /\ apps \in s.loads
    /\ pc = "start"
    /\ caller = "startup"
    /\ app_index = 0
    /\ last_position = << >>
    /\ last_encoder_switch = FALSE
    /\ position = 0
    /\ enc_position = 0
    /\ result = "unset"
    /\ key_number = 0
    /\ pressed = FALSE
    /\ idx = 1
    /\ encoder = 0
    /\ encoder_switch = FALSE
    /\ key_down = {}
    /\ events = << >>
    /\ sink = EmptySink
    /\ pixels = [i \in 0..(NumPixels - 1) |-> OFF]
    /\ menu = BlankMenu
    /\ display_root = "group"
    /\ calls = << >>
    /\ before = NoSnapshot
    /\ held = {}
    /\ debounced = FALSE
    /\ stale = 0

hardware == << encoder, encoder_switch, key_down, events >>
locals == << position, enc_position, key_number, pressed, idx >>

(***************************************************************************)
(* The hardware.                                                           *)
(***************************************************************************)
Turn ==
    /\ \E d \in {-1, 1} :
         /\ encoder + d \in scenario.positions
         /\ encoder' = encoder + d
    /\ UNCHANGED << scenario, apps, pc, caller, app_index, last_position, last_encoder_switch,
                    result, locals, encoder_switch, key_down, events, sink, pixels,
                    menu, display_root, calls, before, held, debounced, stale >>

Button ==
    /\ encoder_switch' = ~encoder_switch
    /\ UNCHANGED << scenario, apps, pc, caller, app_index, last_position, last_encoder_switch,
                    result, locals, encoder, key_down, events, sink, pixels,
                    menu, display_root, calls, before, held, debounced, stale >>

KeyChange ==
    /\ Len(events) < MaxQueue
    /\ \E k \in scenario.keys :
         /\ key_down' = IF k \in key_down THEN key_down \ {k} ELSE key_down \cup {k}
         /\ events' = Append(events, [key_number |-> k, pressed |-> k \notin key_down])
    /\ UNCHANGED << scenario, apps, pc, caller, app_index, last_position, last_encoder_switch,
                    result, locals, encoder, encoder_switch, sink, pixels,
                    menu, display_root, calls, before, held, debounced, stale >>

(***************************************************************************)
(* App.switch, entered (code.py:110-122): stop everything, set the LEDs,   *)
(* call display_image.                                                     *)
(***************************************************************************)
\* A variant of SwitchEnter with a slip: the LEDs are left for after the icon.
SwitchEnterLedsLater(app, log) ==
    /\ sink' = SwitchSink(sink)
    /\ pixels' = pixels
    /\ calls' = log \o StopEverything
    /\ before' = [pixels |-> pixels, menu |-> menu, sink |-> sink]
    /\ held' = {}
    /\ pc' = "display_image"

SwitchEnter(app, log) ==
    /\ sink' = SwitchSink(sink)
    /\ pixels' = AppColors(app)
    /\ calls' = log \o SwitchCalls(app)
    /\ before' = [pixels |-> pixels, menu |-> menu, sink |-> sink]
    /\ held' = {}
    /\ pc' = "display_image"

\* A variant of Startup with a slip: the sink is released before the test for
\* an empty profile list.
StartupReleasesFirst ==
    /\ pc = "start"
    /\ IF apps = << >>
         THEN /\ menu' = [menu EXCEPT !.name = "NO MACRO FILES FOUND"]
              /\ pc' = "halt"
              /\ calls' = StopEverything
              /\ UNCHANGED << last_position, last_encoder_switch, app_index, caller,
                              sink, pixels, before, held >>
         ELSE /\ last_position' = << >>
              /\ last_encoder_switch' = debounced
              /\ app_index' = 0
              /\ caller' = "startup"
              /\ SwitchEnter(apps[1], << >>)
              /\ UNCHANGED menu
    /\ UNCHANGED << scenario, apps, result, locals, hardware, display_root, debounced, stale >>

\* code.py:178-187
Startup ==
    /\ pc = "start"
    /\ IF apps = << >>
         THEN /\ menu' = [menu EXCEPT !.name = "NO MACRO FILES FOUND"]
              /\ pc' = "halt"
              /\ UNCHANGED << last_position, last_encoder_switch, app_index, caller,
                              sink, pixels, calls, before, held >>
         ELSE /\ last_position' = << >>
              /\ last_encoder_switch' = debounced
              /\ app_index' = 0
              /\ caller' = "startup"
              /\ SwitchEnter(apps[1], << >>)
              /\ UNCHANGED menu
    /\ UNCHANGED << scenario, apps, result, locals, hardware, display_root, debounced, stale >>

\* A variant of NewIndex with a slip: a negative position is taken to the first profile.
NewIndexClamped(p) == IF p < 0 THEN 0 ELSE p % Len(apps)

\* code.py:198
NewIndex(p) == p % Len(apps)

\* code.py:195-199
ReadEncoder ==
    /\ pc = "tick"
    /\ position' = encoder
    /\ IF << encoder >> # last_position
         THEN /\ app_index' = NewIndex(encoder)
              /\ caller' = "loop"
              /\ SwitchEnter(apps[NewIndex(encoder) + 1], << >>)
         ELSE /\ pc' = "input"
              /\ UNCHANGED << app_index, caller, sink, pixels, calls, before, held >>
    /\ UNCHANGED << scenario, apps, last_position, last_encoder_switch, result, enc_position,
                    key_number, pressed, idx, hardware, menu, display_root,
                    debounced, stale >>

\* code.py:46-79: display_image reads the encoder and shows the sprite
DisplayImage ==
    /\ pc = "display_image"
    /\ enc_position' = encoder
    /\ display_root' = "sprite"
    /\ pc' = "animate"
    /\ UNCHANGED << scenario, apps, caller, app_index, last_position, last_encoder_switch,
                    position, result, key_number, pressed, idx, hardware, sink,
                    pixels, menu, calls, before, held, debounced, stale >>

\* What the caller does with the value App.switch returns: line 187 drops it,
\* lines 199-204 record it and the position, and restart the loop on False.
\* ReturnedNoContinue is a variant with a slip: the `continue` of line 204 is
\* missing.
ReturnedNoContinue(value) ==
    IF caller = "startup"
      THEN /\ pc' = "tick"
           /\ UNCHANGED << result, last_position, stale >>
      ELSE /\ result' = IF value THEN "True" ELSE "False"
           /\ last_position' = << position >>
           /\ pc' = "input"
           /\ stale' = IF value THEN stale ELSE Len(events)

Returned(value) ==
    IF caller = "startup"
      THEN /\ pc' = "tick"
           /\ UNCHANGED << result, last_position, stale >>
      ELSE /\ result' = IF value THEN "True" ELSE "False"
           /\ last_position' = << position >>
           /\ pc' = IF value THEN "input" ELSE "interrupted"
           /\ stale' = IF value THEN stale ELSE Len(events)

\* code.py:81-92 and 123-135: the poll of the animation that decides it.  The
\* polls before it saw the encoder where display_image first read it, and the
\* hardware moves between any two of them, so one deciding poll stands for all.
Animate ==
    /\ pc = "animate"
    /\ IF encoder # enc_position
         THEN /\ Returned(FALSE)
              /\ UNCHANGED << menu, display_root >>
         ELSE /\ menu' = AppMenu(apps[app_index + 1])
              /\ display_root' = "group"
              /\ Returned(TRUE)
    /\ UNCHANGED << scenario, apps, caller, app_index, last_encoder_switch, locals, hardware,
                    sink, pixels, calls, before, held, debounced >>

(***************************************************************************)
(* The encoder button and the keypad (code.py:209-239).                    *)
(***************************************************************************)
ActiveApp == apps[app_index + 1]

\* code.py:228: the sequence of the macro being handled
Sequence == ActiveApp.macros[key_number + 1].sequence

\* A variant of HighlightPixels with a slip: the test for the encoder button is
\* missing and the index wraps around.
HighlightPixelsWrapped(k, px) == [px EXCEPT ![k % NumPixels] = HIGHLIGHT]

\* code.py:237-239
HighlightPixels(k, px) == IF k < NumPixels THEN [px EXCEPT ![k] = HIGHLIGHT] ELSE px
HighlightCalls(k) ==
    IF k < NumPixels THEN << CallPixel(k, HIGHLIGHT), Call("pixels.show") >> ELSE << >>

\* A variant of RestorePixels with a slip: the LED is switched off.
RestorePixelsOff(k, px) == IF k < NumPixels THEN [px EXCEPT ![k] = OFF] ELSE px

\* code.py:291-293
RestorePixels(k, px) ==
    IF k < NumPixels THEN [px EXCEPT ![k] = ActiveApp.macros[k + 1].color] ELSE px
RestoreCalls(k) ==
    IF k < NumPixels
      THEN << CallPixel(k, ActiveApp.macros[k + 1].color), Call("pixels.show") >>
      ELSE << >>

\* code.py:228-239: a key or the button with a macro
Dispatch(k, p) ==
    /\ key_number' = k
    /\ pressed' = p
    /\ idx' = 1
    /\ held' = IF p THEN held \cup {k} ELSE held \ {k}
    /\ IF p THEN /\ pixels' = HighlightPixels(k, pixels)
                 /\ calls' = calls \o HighlightCalls(k)
                 /\ pc' = "play"
            ELSE /\ pc' = "release"
                 /\ UNCHANGED << pixels, calls >>

\* A variant of Drop with a slip: the consumer-control release of the release
\* branch is made for an edge without a macro too.
DropAfterMediaRelease(where) ==
    /\ pc' = where
    /\ calls' = calls \o << Call("consumer_control.release") >>
    /\ UNCHANGED << key_number, pressed, idx, pixels, held >>

\* code.py:214 and 220: `continue`, nothing to handle
Drop(where) ==
    /\ pc' = where
    /\ UNCHANGED << key_number, pressed, idx, pixels, calls, held >>

\* code.py:213 and 219: is there a macro for the key?
HasMacro13(app) == ~(Len(app.macros) < MinEncoderMacros)
HasMacro(app, k) == ~(k >= Len(app.macros))

PollInput ==
    /\ pc = "input"
    /\ debounced' = encoder_switch
    /\ IF encoder_switch # last_encoder_switch
         THEN /\ last_encoder_switch' = encoder_switch
              /\ UNCHANGED << events, stale >>
              /\ IF HasMacro13(ActiveApp)
                   THEN Dispatch(EncoderKey, encoder_switch)
                   ELSE Drop("no_macro13")
         ELSE /\ UNCHANGED last_encoder_switch
              /\ IF events = << >>
                   THEN /\ Drop("no_event")
                        /\ UNCHANGED << events, stale >>
                   ELSE /\ events' = Tail(events)
                        /\ stale' = IF stale > 0 THEN stale - 1 ELSE 0
                        /\ IF HasMacro(ActiveApp, Head(events).key_number)
                             THEN Dispatch(Head(events).key_number, Head(events).pressed)
                             ELSE Drop("no_macro")
    /\ UNCHANGED << scenario, apps, caller, app_index, last_position, position, enc_position,
                    result, encoder, encoder_switch, key_down, sink, menu,
                    display_root, before >>

(***************************************************************************)
(* The press branch (code.py:240-273), one item of the sequence a step.    *)
(* An item that raises ends the program: at pc = "raised" only the         *)
(* hardware moves.  What the runtime does with the sink and the LEDs after *)
(* the program has ended is not the program's doing and is left out.       *)
(***************************************************************************)
\* A variant of PlayStep with a slip: the encoder is polled between two items,
\* as display_image does between two frames, and a turn ends the playback.
PlayStepInterruptible ==
    /\ pc = "play"
    /\ IF idx <= Len(Sequence) /\ encoder = position
         THEN /\ sink' \in PressSinks(Sequence[idx], sink)
              /\ calls' = calls \o PressCalls(Sequence[idx])
              /\ idx' = idx + 1
              /\ pc' = "play"
         ELSE /\ pc' = "end"
              /\ UNCHANGED << sink, calls, idx >>
    /\ UNCHANGED << scenario, apps, caller, app_index, last_position, last_encoder_switch,
                    position, enc_position, result, key_number, pressed, hardware,
                    pixels, menu, display_root, before, held, debounced, stale >>

PlayStep ==
    /\ pc = "play"
    /\ IF idx <= Len(Sequence)
         THEN IF PressRaises(Sequence[idx])
                THEN /\ sink' = SinkBeforeRaise(Sequence[idx], sink)
                     /\ calls' = calls \o CallsBeforeRaise(Sequence[idx])
                     /\ pc' = "raised"
                     /\ UNCHANGED idx
                ELSE /\ sink' \in PressSinks(Sequence[idx], sink)
                     /\ calls' = calls \o PressCalls(Sequence[idx])
                     /\ idx' = idx + 1
                     /\ pc' = "play"
         ELSE /\ pc' = "end"
              /\ UNCHANGED << sink, calls, idx >>
    /\ UNCHANGED << scenario, apps, caller, app_index, last_position, last_encoder_switch,
                    position, enc_position, result, key_number, pressed, hardware,
                    pixels, menu, display_root, before, held, debounced, stale >>

(***************************************************************************)
(* The release branch (code.py:280-293), one item of the sequence a step,  *)
(* then the consumer-control release and the LED.                          *)
(***************************************************************************)
ReleaseStep ==
    /\ pc = "release"
    /\ IF idx <= Len(Sequence)
         THEN IF ReleaseRaises(Sequence[idx])
                THEN /\ pc' = "raised"
                     /\ UNCHANGED << sink, calls, idx, pixels >>
                ELSE /\ sink' = ReleaseSink(Sequence[idx], sink)
                     /\ calls' = calls \o ReleaseCalls(Sequence[idx])
                     /\ idx' = idx + 1
                     /\ pc' = "release"
                     /\ UNCHANGED pixels
         ELSE /\ sink' = ReleaseMedia(sink)
              /\ pixels' = RestorePixels(key_number, pixels)
              /\ calls' = calls \o << Call("consumer_control.release") >>
                                \o RestoreCalls(key_number)
              /\ pc' = "end"
              /\ UNCHANGED idx
    /\ UNCHANGED << scenario, apps, caller, app_index, last_position, last_encoder_switch,
                    position, enc_position, result, key_number, pressed, hardware,
                    menu, display_root, before, held, debounced, stale >>

\* The `continue` statements (code.py:204, 214, 220) and the end of the loop
\* body: back to `while True` (code.py:193).  position, enc_position,
\* key_number, pressed and the loop index are assigned again before the next
\* tick reads them; they are set back so that states which differ only in
\* these dead values coincide.
Restarts == {"interrupted", "no_macro13", "no_event", "no_macro", "end"}

Continue ==
    /\ pc \in Restarts
    /\ pc' = "tick"
    /\ calls' = << >>
    /\ before' = NoSnapshot
    /\ UNCHANGED held
    /\ position' = 0 /\ enc_position' = 0
    /\ key_number' = 0 /\ pressed' = FALSE /\ idx' = 1
    /\ UNCHANGED << scenario, apps, caller, app_index, last_position, last_encoder_switch,
                    result, hardware, sink, pixels, menu, display_root,
                    debounced, stale >>

Next ==
    \/ Turn
    \/ Button
    \/ KeyChange
    \/ Startup
    \/ ReadEncoder
    \/ DisplayImage
    \/ Animate
    \/ PollInput
    \/ PlayStep
    \/ ReleaseStep
    \/ Continue

Init == InitAs(Dial)
InitRollover == InitAs(Rollover)
InitMalformed == InitAs(Malformed)
InitSettle == InitAs(Settle)

Spec == Init /\ [][Next]_vars
SpecRollover == InitRollover /\ [][Next]_vars
SpecMalformed == InitMalformed /\ [][Next]_vars

\* The program runs: it is one thread that nothing suspends, every statement
\* of it returns (a sleep, a HID report and the icon animation take a bounded
\* time), so the step it is at is taken.  The hardware is under no obligation.
Program ==
    \/ Startup
    \/ ReadEncoder
    \/ DisplayImage
    \/ Animate
    \/ PollInput
    \/ PlayStep
    \/ ReleaseStep
    \/ Continue

SpecSettle == InitSettle /\ [][Next]_vars /\ WF_vars(Program)

(***************************************************************************)
(* The release branch as a whole (code.py:280-290), and what a sequence    *)
(* presses.                                                                *)
(***************************************************************************)
RECURSIVE ReleaseItems(_, _)
ReleaseItems(seq, s) ==
    IF seq = << >> THEN s ELSE ReleaseItems(Tail(seq), ReleaseSink(Head(seq), s))

ReleaseBranch(seq, s) == ReleaseMedia(ReleaseItems(seq, s))

\* The keycodes, button bits and tones that the press branch asserts for P.
KeysPressedBy(P) ==
    { P[j].i : j \in { n \in DOMAIN P : P[n].t = "int" /\ P[n].i >= 0 } }

ButtonsPressedBy(P) ==
    UNION { MaskBits(P[j].d.buttons) :
              j \in { n \in DOMAIN P : /\ P[n].t = "dict"
                                       /\ Has(P[n].d, "buttons")
                                       /\ P[n].d.buttons >= 0 } }

TonesStartedBy(P) ==
    { P[j].d.tone : j \in { n \in DOMAIN P : /\ P[n].t = "dict"
                                             /\ Has(P[n].d, "tone")
                                             /\ P[n].d.tone > 0 } }

MediaPressedBy(P) ==
    UNION { { P[j].l[m].i : m \in { n \in DOMAIN P[j].l : P[j].l[n].t = "int" } } :
              j \in { n \in DOMAIN P : P[n].t = "list" } }

\* The calls of this tick that follow those of App.switch, if it ran.
DispatchCalls ==
    IF before = NoSnapshot THEN calls
    ELSE SubSeq(calls, Len(SwitchCalls(ActiveApp)) + 1, Len(calls))

\* The part of the sequence the press branch has executed.
Played == SubSeq(Sequence, 1, idx - 1)

(***************************************************************************)
(* C1.  Whatever prefix P of a bound sequence S the press branch has       *)
(* executed, the release branch for S leaves asserted no keyboard key, no  *)
(* mouse button and no tone that P asserted.                               *)
(***************************************************************************)
C1_ReleaseLeavesNothingOfPrefix ==
    pc = "play" =>
      LET after == ReleaseBranch(Sequence, sink)
      IN  /\ after.keys \cap (sink.keys \cap KeysPressedBy(Played)) = {}
          /\ after.buttons \cap (sink.buttons \cap ButtonsPressedBy(Played)) = {}
          /\ sink.tone \in TonesStartedBy(Played) => after.tone = 0

(***************************************************************************)
(* C2.  A key or the encoder button is dispatched only when the latest     *)
(* App.switch of the loop returned True: after an interrupted activation   *)
(* nothing is played or released until an activation completes.            *)
(***************************************************************************)
C2_NoDispatchAfterInterruptedSwitch ==
    pc \in {"play", "release"} => result = "True"

(***************************************************************************)
(* C3 as stated.  When the icon is interrupted, App.switch returns False   *)
(* and the key LEDs and the menu (labels, profile name) are as they were   *)
(* before the call.                                                        *)
(***************************************************************************)
C3_InterruptKeepsLedsAndMenu ==
    pc = "interrupted" =>
      /\ result = "False"
      /\ pixels = before.pixels
      /\ menu = before.menu

(***************************************************************************)
(* C3 as amended.  When the icon is interrupted, App.switch returns False  *)
(* and the menu (labels, profile name) is as it was before the call; the   *)
(* key LEDs show the colors of the newly selected profile.                 *)
(***************************************************************************)
C3_InterruptKeepsMenuSetsLeds ==
    pc = "interrupted" =>
      /\ result = "False"
      /\ menu = before.menu
      /\ pixels = AppColors(ActiveApp)

C3_Witness ==
    /\ pc = "interrupted"
    /\ pixels # before.pixels
    /\ menu.name \notin {"", ActiveApp.name}

(***************************************************************************)
(* C4.  For every bound sequence S and every sink state the program        *)
(* reaches, the release branch for S run twice leaves the sink as the      *)
(* release branch run once does.                                           *)
(***************************************************************************)
C4_ReleaseIdempotent ==
    \A a \in DOMAIN apps : \A k \in DOMAIN apps[a].macros :
      LET S == apps[a].macros[k].sequence
      IN  ReleaseBranch(S, ReleaseBranch(S, sink)) = ReleaseBranch(S, sink)

\* The release branch has run for a key while something else stays asserted.
C4_Witness ==
    /\ pc = "end"
    /\ ~pressed
    /\ sink.keys # {}
    /\ sink = ReleaseBranch(Sequence, sink)

(***************************************************************************)
(* C5 as stated.  While key j is held, no step of the release branch for   *)
(* another key i releases a keyboard key, a mouse button or the media code *)
(* that the sequence of key j pressed and that is still asserted.          *)
(***************************************************************************)
C5_ReleaseSparesOtherHeldKeys ==
    [][ pc = "release" =>
          \A j \in held \ {key_number} :
            LET Sj == ActiveApp.macros[j + 1].sequence
            IN  /\ (sink.keys \cap KeysPressedBy(Sj)) \subseteq sink'.keys
                /\ (sink.buttons \cap ButtonsPressedBy(Sj)) \subseteq sink'.buttons
                /\ sink.media \in MediaPressedBy(Sj) => sink'.media = sink.media
      ]_vars

(***************************************************************************)
(* C5 as amended.  While key j is held, a step of the release branch for   *)
(* another key i releases a keyboard key or a mouse button that the        *)
(* sequence of key j pressed only if the sequence of key i presses the     *)
(* same keycode or button; it asserts nothing.  (The media code is         *)
(* released on every release edge, whoever pressed it.)                    *)
(***************************************************************************)
C5_ReleaseTouchesOnlyOwnEntries ==
    [][ pc = "release" =>
          /\ sink'.keys \subseteq sink.keys
          /\ sink'.buttons \subseteq sink.buttons
          /\ \A j \in held \ {key_number} :
               LET Sj == ActiveApp.macros[j + 1].sequence
               IN  /\ ((sink.keys \cap KeysPressedBy(Sj)) \ KeysPressedBy(Sequence))
                         \subseteq sink'.keys
                   /\ ((sink.buttons \cap ButtonsPressedBy(Sj)) \ ButtonsPressedBy(Sequence))
                         \subseteq sink'.buttons
      ]_vars

\* Key i has been released while key j is held; their sequences share a keycode,
\* and another key and the mouse button of key j are still down.
C5_Witness ==
    /\ pc = "end"
    /\ ~pressed
    /\ \E j \in held \ {key_number} :
         /\ KeysPressedBy(Sequence) \cap KeysPressedBy(ActiveApp.macros[j + 1].sequence) # {}
         /\ sink.keys \cap KeysPressedBy(ActiveApp.macros[j + 1].sequence) # {}
         /\ sink.buttons \cap ButtonsPressedBy(ActiveApp.macros[j + 1].sequence) # {}

(***************************************************************************)
(* C6.  A keypad event that was waiting in the queue when a switch was     *)
(* interrupted is never dispatched afterwards: no press or release branch  *)
(* is started for it, not even once a later activation has completed.      *)
(***************************************************************************)
C6_PendingEventNeverDispatched ==
    [][ ( /\ pc = "input"
          /\ result = "True"
          /\ pc' \in {"play", "release"}
          /\ events' # events ) => stale = 0 ]_vars

(***************************************************************************)
(* C7.  A tick that reads a position other than the recorded one sets      *)
(* app_index to the position modulo the number of profiles, an index of a  *)
(* profile for negative positions too; once the first tick has recorded a  *)
(* position, app_index is the recorded position modulo the number of       *)
(* profiles whenever no App.switch is in progress, whether or not the      *)
(* activation completed.                                                   *)
(***************************************************************************)
IsModulo(r, p, n) ==
    /\ r \in 0..(n - 1)
    /\ \E q \in (-(MaxEnc + 1))..(MaxEnc + 1) : p = q * n + r

C7_IndexIsPositionModCount ==
    /\ (pc \in {"display_image", "animate"} /\ caller = "loop")
          => IsModulo(app_index, position, Len(apps))
    /\ (last_position # << >> /\ pc \notin {"display_image", "animate"})
          => IsModulo(app_index, last_position[1], Len(apps))

\* Position 3 with two profiles: index 1, the activation interrupted.
C7_Witness ==
    /\ pc = "tick"
    /\ Len(apps) = 2
    /\ last_position = << 3 >>
    /\ app_index = 1
    /\ result = "False"

(***************************************************************************)
(* C8 as stated.  Dropping a keypad event or an encoder-button edge for    *)
(* lack of a macro makes no output call and changes neither app_index, the *)
(* recorded position, the recorded button state, the LEDs nor the menu.    *)
(***************************************************************************)
C8_DropChangesNothing ==
    [][ (pc = "input" /\ pc' \in {"no_macro13", "no_macro"}) =>
          /\ calls' = calls
          /\ sink' = sink
          /\ app_index' = app_index
          /\ last_position' = last_position
          /\ last_encoder_switch' = last_encoder_switch
          /\ pixels' = pixels
          /\ menu' = menu
      ]_vars

(***************************************************************************)
(* C8 as amended.  Dropping a keypad event or an encoder-button edge for   *)
(* lack of a macro makes no output call and changes neither app_index, the *)
(* recorded position, the LEDs nor the menu.  A dropped keypad event       *)
(* leaves the recorded button state too; a dropped button edge records the *)
(* new button state.                                                       *)
(***************************************************************************)
C8_DropChangesOnlyButtonRecord ==
    [][ (pc = "input" /\ pc' \in {"no_macro13", "no_macro"}) =>
          /\ calls' = calls
          /\ sink' = sink
          /\ app_index' = app_index
          /\ last_position' = last_position
          /\ pixels' = pixels
          /\ menu' = menu
          /\ pc' = "no_macro" => last_encoder_switch' = last_encoder_switch
          /\ pc' = "no_macro13" => /\ last_encoder_switch' = encoder_switch
                                   /\ last_encoder_switch' # last_encoder_switch
      ]_vars

\* A press of the encoder button has been dropped: the profile has no 13th macro.
C8_Witness ==
    /\ pc = "no_macro13"
    /\ last_encoder_switch
    /\ ~HasMacro13(ActiveApp)

(***************************************************************************)
(* C9.  App.switch begins with keyboard release-all, consumer-control      *)
(* release, mouse release-all and stop-tone, before any LED is written;    *)
(* from then until it has returned, nothing is asserted at the sink.       *)
(***************************************************************************)
C9_SwitchStopsEverythingFirst ==
    /\ ( \/ pc \in {"display_image", "animate", "interrupted"}
         \/ (pc \in {"tick", "input"} /\ before # NoSnapshot) )
          => sink = EmptySink
    /\ before # NoSnapshot =>
          /\ Len(calls) >= 4
          /\ { calls[n].op : n \in 1..4 } =
               { "keyboard.release_all", "consumer_control.release",
                 "mouse.release_all", "stop_tone" }
          /\ \A n \in DOMAIN calls : calls[n].op \in {"pixel", "pixels.show"} => n > 4

\* App.switch has returned, interrupted, and keys, a button and a tone were
\* asserted when it was called.
C9_Witness ==
    /\ pc = "interrupted"
    /\ before.sink.keys # {}
    /\ before.sink.buttons # {}
    /\ before.sink.tone # 0
    /\ sink = EmptySink

(***************************************************************************)
(* C10.  On a press of a bound key k < 12, LED k is set to the highlight   *)
(* color before any sink call; a sequence of key entries then produces one *)
(* keyboard press per non-negative entry and one keyboard release per      *)
(* negative entry, in the order of the sequence (Copy: press CONTROL,      *)
(* press c, release c, release CONTROL).  When the release branch for key  *)
(* k has run, LED k has the color of the binding.                          *)
(***************************************************************************)
KeyOnly(S) == \A n \in DOMAIN S : S[n].t = "int"

ExpectedKeyCalls(P) ==
    [ n \in 1..Len(P) |->
        IF P[n].i >= 0 THEN [op |-> "keyboard.press", arg |-> P[n].i]
                       ELSE [op |-> "keyboard.release", arg |-> -P[n].i] ]

C10_PressPlaysKeysInOrder ==
    /\ ((pc = "play" \/ (pc = "end" /\ pressed)) /\ key_number < NumPixels) =>
          /\ pixels[key_number] = HIGHLIGHT
          /\ Len(DispatchCalls) >= 2
          /\ DispatchCalls[1] = [op |-> "pixel", i |-> key_number, color |-> HIGHLIGHT]
          /\ DispatchCalls[2] = [op |-> "pixels.show"]
          /\ KeyOnly(Sequence) =>
               SubSeq(DispatchCalls, 3, Len(DispatchCalls)) = ExpectedKeyCalls(Played)
    /\ (pc = "end" /\ pressed /\ app_index = 0 /\ key_number = 0) =>
          SubSeq(DispatchCalls, 3, Len(DispatchCalls)) =
            << [op |-> "keyboard.press", arg |-> 224], [op |-> "keyboard.press", arg |-> 6],
               [op |-> "keyboard.release", arg |-> 6],
               [op |-> "keyboard.release", arg |-> 224] >>
    /\ (pc = "end" /\ ~pressed /\ key_number < NumPixels) =>
          pixels[key_number] = ActiveApp.macros[key_number + 1].color

\* The press branch has run to the end of Copy, bound to key 0 with color 0xFF0000.
C10_Witness ==
    /\ pc = "end"
    /\ pressed
    /\ app_index = 0
    /\ key_number = 0
    /\ ActiveApp.macros[1].color = 16711680
    /\ Len(DispatchCalls) = 6

(***************************************************************************)
(* The calls of a dispatch that go to the output sink: all but the LED     *)
(* writes.                                                                 *)
(***************************************************************************)
SinkCalls == SelectSeq(DispatchCalls, LAMBDA c : c.op \notin {"pixel", "pixels.show"})

\* The sequence is one list of consumer-control codes and delays.
MediaOnly(S) == Len(S) = 1 /\ S[1].t = "list"

\* A list of codes and delays as calls, the releases left out.
MediaPressesAndDelays(l) ==
    [ n \in 1..Len(l) |->
        IF l[n].t = "int" THEN [op |-> "consumer_control.press", arg |-> l[n].i]
                          ELSE [op |-> "sleep", arg |-> l[n].f] ]

(***************************************************************************)
(* C11 as stated.  Playing the sequence of one list [233, delay, 234]      *)
(* (delays are counted in tenths of a second) makes exactly the sink calls *)
(* media-press(233), delay, media-release(), media-press(234), in that     *)
(* order.                                                                  *)
(***************************************************************************)
C11_MediaCallsAsListed ==
    (pc = "end" /\ pressed /\ app_index = 0 /\ key_number = EncoderKey) =>
       SinkCalls = << [op |-> "consumer_control.press", arg |-> 233],
                      [op |-> "sleep", arg |-> 1],
                      [op |-> "consumer_control.release"],
                      [op |-> "consumer_control.press", arg |-> 234] >>

(***************************************************************************)
(* C11 as amended.  Playing the sequence of one list [233, delay, 234]     *)
(* makes the sink calls media-release(), media-press(233), delay,          *)
(* media-release(), media-press(234), in that order: every press, the      *)
(* first included, directly follows a media-release().  In general the     *)
(* calls are the codes pressed and the delays made in list order, with one *)
(* media-release() directly before each press and nowhere else.            *)
(***************************************************************************)
C11_MediaReleaseBeforeEveryPress ==
    /\ (pc = "end" /\ pressed /\ app_index = 0 /\ key_number = EncoderKey) =>
          SinkCalls = << [op |-> "consumer_control.release"],
                         [op |-> "consumer_control.press", arg |-> 233],
                         [op |-> "sleep", arg |-> 1],
                         [op |-> "consumer_control.release"],
                         [op |-> "consumer_control.press", arg |-> 234] >>
    /\ (pc = "end" /\ pressed /\ MediaOnly(Sequence)) =>
          /\ SelectSeq(SinkCalls, LAMBDA c : c.op # "consumer_control.release")
                = MediaPressesAndDelays(Sequence[1].l)
          /\ \A n \in DOMAIN SinkCalls :
                /\ SinkCalls[n].op = "consumer_control.press" =>
                      (n > 1 /\ SinkCalls[n - 1].op = "consumer_control.release")
                /\ SinkCalls[n].op = "consumer_control.release" =>
                      (n < Len(SinkCalls) /\ SinkCalls[n + 1].op = "consumer_control.press")

\* The list bound to the encoder button has been played to its end.
C11_Witness ==
    /\ pc = "end"
    /\ pressed
    /\ key_number = EncoderKey
    /\ MediaOnly(Sequence)
    /\ Len(SinkCalls) = 5
    /\ sink.media = 234

(***************************************************************************)
(* C12.  The press branch skips an item that is unknown or malformed and   *)
(* goes on: it is left only at the end of the sequence, every item having  *)
(* been taken in order, and the loop then restarts.                        *)
(***************************************************************************)
C12_PlaybackSkipsBadItems ==
    [][ pc = "play" =>
          \/ pc' = "play" /\ idx' \in {idx, idx + 1}
          \/ pc' = "end" /\ idx > Len(Sequence)
      ]_vars

(***************************************************************************)
(* C13.  A tick that finds the encoder button changed records the new      *)
(* button state and takes no keypad event; it starts the press branch (on  *)
(* a press) or the release branch (on a release) of the sequence bound at  *)
(* index 12 if the active profile has a binding at index 12, and drops the *)
(* edge without a call otherwise.  Index 12 is dispatched for a button     *)
(* change only, and from its dispatch to the end of its branch no key LED  *)
(* changes and no LED is written.                                          *)
(***************************************************************************)
C13_ButtonEdgeIsKey12 ==
    [][ /\ (pc = "input" /\ pc' # "input" /\ encoder_switch # last_encoder_switch) =>
             /\ last_encoder_switch' = encoder_switch
             /\ events' = events
             /\ IF Len(ActiveApp.macros) > EncoderKey
                  THEN /\ key_number' = EncoderKey
                       /\ pressed' = encoder_switch
                       /\ idx' = 1
                       /\ pc' = IF encoder_switch THEN "play" ELSE "release"
                  ELSE /\ pc' = "no_macro13"
                       /\ calls' = calls
        /\ (pc = "input" /\ pc' \in {"play", "release"} /\ key_number' = EncoderKey) =>
             encoder_switch # last_encoder_switch
        /\ (pc' \in {"play", "release", "end"} /\ key_number' = EncoderKey) =>
             /\ pixels' = pixels
             /\ Sequence' = ActiveApp.macros[EncoderKey + 1].sequence
             /\ \A n \in DOMAIN DispatchCalls' :
                  DispatchCalls'[n].op \notin {"pixel", "pixels.show"}
      ]_vars

\* The release of the encoder button has been handled while key 1 is held and lit.
C13_Witness ==
    /\ pc = "end"
    /\ key_number = EncoderKey
    /\ ~pressed
    /\ last_encoder_switch = FALSE
    /\ 1 \in held
    /\ pixels[1] = HIGHLIGHT

(***************************************************************************)
(* C14.  With no profile loaded, the program sets the message "NO MACRO    *)
(* FILES FOUND" and halts for good: the menu keeps the message, the main   *)
(* loop is never entered, the encoder, the button and the keypad queue are *)
(* never read (no event leaves the queue), no call goes to the sink and no *)
(* LED is written.                                                         *)
(***************************************************************************)
C14_NoProfilesHalts ==
    [][ apps = << >> =>
          /\ pc' \in {"start", "halt"}
          /\ pc = "halt" => (pc' = "halt" /\ menu' = menu)
          /\ pc' = "halt" => menu'.name = "NO MACRO FILES FOUND"
          /\ position' = position
          /\ enc_position' = enc_position
          /\ debounced' = debounced
          /\ last_encoder_switch' = last_encoder_switch
          /\ Len(events') >= Len(events)
          /\ calls' = << >>
          /\ sink' = EmptySink
          /\ pixels' = pixels
          /\ display_root' = "group"
      ]_vars

\* Halted, with the dial turned, the button down and a key event waiting.
C14_Witness ==
    /\ apps = << >>
    /\ pc = "halt"
    /\ menu.name = "NO MACRO FILES FOUND"
    /\ encoder # 0
    /\ encoder_switch
    /\ events # << >>

(***************************************************************************)
(* C15.  If the encoder comes to rest at a position p, then from some      *)
(* point on the profile at index p modulo the number of profiles is the    *)
(* active one and the menu shown is its menu: an activation of it has      *)
(* completed, whatever activations were interrupted before.                *)
(***************************************************************************)
C15_RetryUntilActivated ==
    \A p \in Settle.positions :
       <>[](encoder = p) =>
          <>[](app_index = p % Len(apps) /\ menu = AppMenu(apps[(p % Len(apps)) + 1]))

(***************************************************************************)
(* C16.  The release branch makes release calls only.  For a sequence S    *)
(* handled on a release edge the calls are, item by item in the order of   *)
(* S: key-release(code) for a non-negative key entry, mouse-release(mask)  *)
(* for a mouse event with a non-negative button mask, tone-stop for mouse  *)
(* events only (at most one for each mouse event with a tone, at its       *)
(* place), and nothing for a negative entry, a delay, a text or a media    *)
(* list; then one media-release(); then, for a key below 12, the write of  *)
(* the bound color to the key's LED.  At no point of the branch has a      *)
(* press, a text write, a mouse move, a tone start, a file play or a delay *)
(* been made.                                                              *)
(***************************************************************************)
ReleaseOps ==
    { "keyboard.release", "mouse.release", "stop_tone", "consumer_control.release" }

\* The release calls of S with a tone-stop for every mouse event with a tone.
RECURSIVE ReleaseCallsWithTones(_)
ReleaseCallsWithTones(S) ==
    IF S = << >> THEN << >>
    ELSE LET e == Head(S)
         IN  (IF e.t = "int" /\ e.i >= 0
                THEN << [op |-> "keyboard.release", arg |-> e.i] >>
                ELSE << >>)
             \o (IF e.t = "dict" /\ "buttons" \in DOMAIN e.d /\ e.d.buttons >= 0
                   THEN << [op |-> "mouse.release", arg |-> e.d.buttons] >>
                   ELSE << >>)
             \o (IF e.t = "dict" /\ "tone" \in DOMAIN e.d
                   THEN << [op |-> "stop_tone"] >>
                   ELSE << >>)
             \o ReleaseCallsWithTones(Tail(S))

\* D is E with some of its tone-stops left out.
RECURSIVE LeavesOutToneStops(_, _)
LeavesOutToneStops(D, E) ==
    IF E = << >> THEN D = << >>
    ELSE IF D # << >> /\ Head(D) = Head(E) THEN LeavesOutToneStops(Tail(D), Tail(E))
    ELSE Head(E).op = "stop_tone" /\ LeavesOutToneStops(D, Tail(E))

LedRestoreCalls ==
    IF key_number < NumPixels
      THEN << [op |-> "pixel", i |-> key_number,
               color |-> apps[app_index + 1].macros[key_number + 1].color],
              [op |-> "pixels.show"] >>
      ELSE << >>

BoundColor(i) ==
    IF i < Len(apps[app_index + 1].macros)
      THEN apps[app_index + 1].macros[i + 1].color
      ELSE 0

C17_LedsShowProfileOrHighlight ==
    pc = "tick" =>
      \A i \in 0..11 :
         /\ pixels[i] \in {BoundColor(i), HIGHLIGHT}
         /\ (pixels[i] = HIGHLIGHT /\ BoundColor(i) # HIGHLIGHT) => i \in held

\* At the start of a tick key 1 is held and lit, and key 0 shows its bound color.
C17_Witness ==
    /\ pc = "tick"
    /\ held = {1}
    /\ pixels[1] = HIGHLIGHT
    /\ pixels[0] = BoundColor(0)
    /\ key_down = {1}
    /\ sink.keys # {}

(***************************************************************************)
(* C18.  A keypad event leaves the queue only in the poll of a tick        *)
(* (code.py:218), one event a tick and the head of the queue, in a tick    *)
(* whose App.switch, if it ran, completed and that found the encoder       *)
(* button unchanged; the event taken is dispatched to its branch if the    *)
(* active profile has a binding for its key and dropped without a call     *)
(* otherwise.  If the encoder and the encoder button come to rest, every   *)
(* event at the head of the queue is eventually taken.  (With one key in   *)
(* use two events that follow each other in the queue differ, so the head  *)
(* changes whenever an event is taken.)                                    *)
(***************************************************************************)
Dequeues == Len(events') < Len(events)

KeyEvents == [key_number : Settle.keys, pressed : BOOLEAN]

C19_PlaybackRunsToCompletion ==
    /\ [][ (pc = "play" \/ pc = "release") =>
              /\ position' = position
              /\ enc_position' = enc_position
              /\ debounced' = debounced
              /\ last_position' = last_position
              /\ last_encoder_switch' = last_encoder_switch
              /\ Len(events') >= Len(events)
              /\ app_index' = app_index
              /\ key_number' = key_number
              /\ pressed' = pressed
              /\ \/ pc' = pc /\ idx' \in {idx, idx + 1}
                 \/ pc' = "end" /\ idx > Len(Sequence)
          ]_vars
    /\ (pc \in {"play", "release"}) ~> (pc = "end" /\ idx > Len(Sequence))

\* The press branch of Grab is through while the dial has been turned, the
\* button pressed and a key event queued since the tick read the hardware.
C19_Witness ==
    /\ pc = "end"
    /\ pressed
    /\ key_number = 1
    /\ idx > Len(Sequence)
    /\ encoder # position
    /\ encoder_switch # debounced
    /\ events # << >>

====
